---- MODULE Spec2Model ----
(***************************************************************************)
(* A model of the mrbc compiler driver                                     *)
(* (mrbgems/mruby-bin-mrbc/tools/mrbc/mrbc.c).                             *)
(*                                                                         *)
(* C strings are sequences of one-character strings; the terminating NUL   *)
(* is implicit for argv elements and literals and explicit in the buffers  *)
(* that get_outfilename fills.  A char* value is a record                  *)
(* [obj, off, s]: the object it points into, the offset in it, and the     *)
(* characters from there to the terminator.                                *)
(***************************************************************************)
EXTENDS Integers, Sequences, FiniteSets, TLC

\* ------------------------------------------------------------------ bounds
\* the longest argument vector explored, not counting argv[0]
MaxArgs == 3
\* the longest file name given to get_outfilename on its own
MaxLen == 3
\* how often the parser asks the hook again after the hook returned -1
MaxExtraHook == 1

\* ---------------------------------------------------------- C strings
NUL == "NUL"
UNINIT == "UNINIT"
LF == "\n"

RITEBIN_EXT == <<".", "m", "r", "b">>
C_EXT == <<".", "c">>
C_HEAD_EXT == <<".", "h">>

\* s[k] of a NUL-terminated string, k counted from 0
CharAt(s, k) == IF k < Len(s) THEN s[k + 1] ELSE NUL

\* s + k
Suffix(s, k) == SubSeq(s, k + 1, Len(s))

SetMax(S) == CHOOSE x \in S : \A y \in S : y <= x

\* strrchr: the offset of the last ch in s, -1 for the null pointer
Strrchr(s, ch) ==
  LET I == {k \in 1..Len(s) : s[k] = ch}
  IN IF I = {} THEN -1 ELSE SetMax(I) - 1

\* strncpy(buf + at, src, cnt): exactly cnt cells are written, the
\* characters of src and then NULs
Strncpy(buf, at, src, cnt) ==
  [k \in 1..Len(buf) |->
     IF k - 1 >= at /\ k - 1 < at + cnt
       THEN CharAt(src, k - 1 - at)
       ELSE buf[k]]

\* the string a buffer holds: the cells before the first NUL
RECURSIVE CStr(_)
CStr(buf) ==
  IF buf = <<>> THEN <<UNINIT>>
  ELSE IF Head(buf) = NUL THEN <<>>
  ELSE <<Head(buf)>> \o CStr(Tail(buf))

Terminated(buf) == \E k \in 1..Len(buf) : buf[k] = NUL

\* ---------------------------------------------------- get_outfilename
\* a faulty variant: the extension is appended whenever it is non-empty
get_outfilename_appends(infile, ext) ==
  LET p == IF ext # <<>> THEN Strrchr(infile, ".") ELSE -1
      ilen == IF p # -1 THEN p ELSE Len(infile)
      flen == IF ext # <<>> THEN ilen + Len(ext) ELSE Len(infile)
      buf0 == [k \in 1..(flen + 1) |-> UNINIT]
      buf1 == Strncpy(buf0, 0, infile, ilen + 1)
  IN [buf |-> IF ext # <<>> THEN Strncpy(buf1, ilen, ext, Len(ext) + 1) ELSE buf1,
      overflow |-> FALSE]

\* the buffer get_outfilename returns, and whether a strncpy ran past it
get_outfilename(infile, ext) ==
  LET ilen0 == Len(infile)
      elen == Len(ext)
      p == IF ext # <<>> THEN Strrchr(infile, ".") ELSE -1
      ilen == IF p # -1 THEN p ELSE ilen0
      flen == IF ext # <<>> THEN ilen0 + elen ELSE ilen0
      buf0 == [k \in 1..(flen + 1) |-> UNINIT]
      buf1 == Strncpy(buf0, 0, infile, ilen + 1)
      buf2 == IF p # -1 THEN Strncpy(buf1, ilen, ext, elen + 1) ELSE buf1
  IN [buf |-> buf2,
      overflow |-> (ilen + 1 > flen + 1) \/ (p # -1 /\ ilen + elen + 1 > flen + 1)]

\* --------------------------------------------------------- pointers
NULL == [obj |-> <<"NULL", "">>, off |-> 0, s |-> <<>>]
\* argv[i] + off
ArgPtr(av, i, off) == [obj |-> <<"argv", ToString(i)>>, off |-> off, s |-> Suffix(av[i + 1], off)]
\* the buffer a get_outfilename call at the given place returned
HeapPtr(site, buf) == [obj |-> <<"heap", site>>, off |-> 0, s |-> CStr(buf)]
\* an indeterminate pointer that happens to point at readable bytes
StalePtr(g) == [obj |-> <<"stale", "">>, off |-> 0, s |-> g]
\* an indeterminate pointer that points nowhere
WildPtr == [obj |-> <<"wild", "">>, off |-> 0, s |-> <<>>]
\* the string literal C_HEAD_EXT of dump_file
LitHeadExt == [obj |-> <<"literal", "C_HEAD_EXT">>, off |-> 0, s |-> C_HEAD_EXT]

\* ------------------------------------------------------ option names
S_version == <<"v", "e", "r", "s", "i", "o", "n">>
S_verbose == <<"v", "e", "r", "b", "o", "s", "e">>
S_copyright == <<"c", "o", "p", "y", "r", "i", "g", "h", "t">>
S_remove_lv == <<"r", "e", "m", "o", "v", "e", "-", "l", "v">>
S_no_ext_ops == <<"n", "o", "-", "e", "x", "t", "-", "o", "p", "s">>
S_no_optimize == <<"n", "o", "-", "o", "p", "t", "i", "m", "i", "z", "e">>
S_line_size == <<"l", "i", "n", "e", "-", "s", "i", "z", "e">>

Digits == <<"0", "1", "2", "3", "4", "5", "6", "7", "8", "9">>
IsDigit(c) == \E d \in 1..10 : Digits[d] = c
DigitVal(c) == (CHOOSE d \in 1..10 : Digits[d] = c) - 1

\* mrb_read_int: the leading decimal digits of s (0 when there are none)
RECURSIVE ReadDigits(_, _)
ReadDigits(s, acc) ==
  IF s # <<>> /\ IsDigit(Head(s))
    THEN ReadDigits(Tail(s), acc * 10 + DigitVal(Head(s)))
    ELSE acc
mrb_read_int(s) == [ok |-> TRUE, v |-> ReadDigits(s, 0)]

\* --------------------------------------------------------- parse_args
\* struct mrbc_args without prog, argv and argc, which are argv's
args_zero ==
  [outfile |-> NULL, initname |-> NULL, idx |-> 0, line_size |-> 0,
   check_syntax |-> FALSE, verbose |-> FALSE, remove_lv |-> FALSE,
   no_ext_ops |-> FALSE, no_optimize |-> FALSE, flags |-> {}]

\* how parse_args ends: its return value n, or exit(EXIT_SUCCESS) inside it
ParseRet(n, a, out, exited) == [n |-> n, args |-> a, out |-> out, exited |-> exited]

\* the value of a value-taking option at argv[i]: the next argument when
\* nothing is glued to the flag and a next argument exists, else what is glued
OptValue(av, i) ==
  IF CharAt(av[i + 1], 2) = NUL /\ i + 1 < Len(av)
    THEN [i |-> i + 1, p |-> ArgPtr(av, i + 1, 0)]
    ELSE [i |-> i, p |-> ArgPtr(av, i, 2)]

\* the body of the for loop of parse_args from index i on
RECURSIVE parse_loop(_, _, _, _)

\* a faulty variant of VersionOption: the version is shown and the loop goes on
VersionOption_noExit(av, i, a, out) == parse_loop(av, i + 1, a, Append(out, "version"))

\* --version: mrb_show_version, then exit(EXIT_SUCCESS) inside parse_args
VersionOption(av, i, a, out) == ParseRet(i, a, Append(out, "version"), TRUE)

\* a faulty variant of UnknownShort: an unknown flag is a usage error
UnknownShort_usage(i, a, out) == ParseRet(-1, a, out, FALSE)

\* the default label of the switch: the index of the argument is returned
UnknownShort(i, a, out) == ParseRet(i, a, out, FALSE)

\* case '-' of the switch: the long options, compared after the two dashes
parse_long(av, i, a, out) ==
  LET s == av[i + 1]
      name == Suffix(s, 2)
  IN IF CharAt(s, 1) = LF THEN ParseRet(i, a, out, FALSE)
     ELSE IF name = S_version THEN VersionOption(av, i, a, out)
     ELSE IF name = S_verbose
       THEN parse_loop(av, i + 1, [a EXCEPT !.verbose = TRUE], out)
     ELSE IF name = S_copyright THEN ParseRet(i, a, Append(out, "copyright"), TRUE)
     ELSE IF name = S_remove_lv
       THEN parse_loop(av, i + 1, [a EXCEPT !.remove_lv = TRUE], out)
     ELSE IF name = S_no_ext_ops
       THEN parse_loop(av, i + 1, [a EXCEPT !.no_ext_ops = TRUE], out)
     ELSE IF name = S_no_optimize
       THEN parse_loop(av, i + 1, [a EXCEPT !.no_optimize = TRUE], out)
     ELSE IF name = S_line_size
       THEN LET j == IF CharAt(s, 2) = NUL /\ i + 1 < Len(av) THEN i + 1 ELSE i
                r == IF j = i THEN mrb_read_int(Suffix(s, 2)) ELSE mrb_read_int(av[j + 1])
            IN IF ~r.ok \/ r.v < 1 \/ r.v > 255
                 THEN ParseRet(-1, a, Append(out, "line size out of bounds"), FALSE)
                 ELSE parse_loop(av, j + 1, [a EXCEPT !.line_size = r.v % 256], out)
     ELSE ParseRet(-1, a, out, FALSE)

parse_loop(av, i, a, out) ==
  IF i >= Len(av) THEN ParseRet(i, a, out, FALSE)
  ELSE
    LET s == av[i + 1]
        c == CharAt(s, 1)
        v == OptValue(av, i)
    IN IF CharAt(s, 0) # "-" THEN ParseRet(i, a, out, FALSE)
       ELSE CASE c = "o" ->
                   IF a.outfile # NULL
                     THEN ParseRet(-1, a, Append(out, "an output file is already specified"), FALSE)
                     ELSE parse_loop(av, v.i + 1, [a EXCEPT !.outfile = v.p], out)
              [] c = "S" -> parse_loop(av, i + 1, [a EXCEPT !.flags = @ \cup {"MRB_DUMP_STRUCT"}], out)
              [] c = "B" ->
                   IF v.p.s = <<>>
                     THEN ParseRet(-1, [a EXCEPT !.initname = v.p],
                                   Append(out, "function name is not specified"), FALSE)
                     ELSE parse_loop(av, v.i + 1, [a EXCEPT !.initname = v.p], out)
              [] c = "H" -> parse_loop(av, i + 1, [a EXCEPT !.flags = @ \cup {"MRB_DUMP_HEADER"}], out)
              [] c = "8" -> parse_loop(av, i + 1, [a EXCEPT !.flags = @ \cup {"MRB_DUMP_OCTAL"}], out)
              [] c = "c" -> parse_loop(av, i + 1, [a EXCEPT !.check_syntax = TRUE], out)
              [] c = "v" ->
                   parse_loop(av, i + 1, [a EXCEPT !.verbose = TRUE],
                              IF a.verbose THEN out ELSE Append(out, "version"))
              [] c = "g" -> parse_loop(av, i + 1, [a EXCEPT !.flags = @ \cup {"MRB_DUMP_DEBUG_INFO"}], out)
              [] c = "s" -> parse_loop(av, i + 1, [a EXCEPT !.flags = @ \cup {"MRB_DUMP_STATIC"}], out)
              [] c \in {"E", "e"} -> parse_loop(av, i + 1, a, Append(out, "-e/-E option no longer needed"))
              [] c = "h" -> ParseRet(-1, a, out, FALSE)
              [] c = "-" -> parse_long(av, i, a, out)
              [] OTHER -> UnknownShort(i, a, out)

\* parse_args(mrb, argc, argv, &args): *args is zeroed, then the loop runs from 1
parse_args(av) == parse_loop(av, 1, args_zero, <<>>)

\* ------------------------------------------------------------- state
VARIABLES
  argv,        \* main's argument vector, argv[0] first
  pc,          \* where main is
  args,        \* struct mrbc_args args
  n,           \* main's n, what parse_args returned
  outfilename, \* main's outfilename
  wfp,         \* main's wfp, a stream handle (0 is the null pointer)
  load,        \* main's load: "none", "nil" or "proc"
  result,      \* main's result, a dump status
  exitcode,    \* how the process ended, "running" until then
  streams,     \* every FILE the process has: [name, mode, open]
  log,         \* what the process did to the outside, in order
  infile,      \* load_file's infile
  need_close,  \* load_file's need_close
  hook,        \* whether c->partial_hook is set
  p_f,         \* the parser's p->f
  hookRet,     \* what the last partial_hook call returned and why
  extra,       \* hook calls made after the hook returned -1
  parsed,      \* what mrb_load_file_cxt returned: "none", "undef" or "proc"
  fn_in,       \* a function on its own: the arguments it is called with
  fn_out       \* a function on its own: what it returned

vars == <<argv, pc, args, n, outfilename, wfp, load, result, exitcode, streams,
          log, infile, need_close, hook, p_f, hookRet, extra, parsed, fn_in, fn_out>>

mainLocals == <<n, outfilename, wfp, load, result>>
loaderVars == <<infile, need_close, hook, p_f, hookRet, extra, parsed>>
fnVars == <<fn_in, fn_out>>

\* stdin and stdout are the first two streams of the process
STDIN == 1
STDOUT == 2

\* the arguments main is started with
A_o == <<"-", "o">>
A_oo == <<"-", "o", "o">>
A_oStdout == <<"-", "o", "-">>
A_c == <<"-", "c">>
A_s == <<"-", "s">>
A_S == <<"-", "S">>
A_Bs == <<"-", "B", "s">>
A_H == <<"-", "H">>
A_h == <<"-", "h">>
A_version == <<"-", "-">> \o S_version
A_remove_lv == <<"-", "-">> \o S_remove_lv
A_dash == <<"-">>
A_a_r == <<"a", ".", "r">>
A_b == <<"b">>
PROG == <<"m", "r", "b", "c">>

ArgPool == {A_o, A_oo, A_oStdout, A_c, A_s, A_S, A_Bs, A_H, A_h, A_version,
            A_remove_lv, A_dash, A_a_r, A_b}

RECURSIVE SeqsUpTo(_, _)
SeqsUpTo(S, k) ==
  IF k = 0 THEN {<<>>}
  ELSE LET R == SeqsUpTo(S, k - 1)
       IN R \cup {Append(q, x) : q \in {r \in R : Len(r) = k - 1}, x \in S}

\* the value of an automatic variable that was never assigned
Indeterminate == [obj |-> <<"indeterminate", "">>, off |-> 0, s |-> <<>>]
\* what reading it can give: a pointer to nothing, or to some bytes
IndeterminateValues ==
  {WildPtr, StalePtr(<<"x">>), StalePtr(<<"x", ".", "h">>)}
Read(p) == IF p = Indeterminate THEN IndeterminateValues ELSE {p}

Ev(op, x, s, h) == [op |-> op, x |-> x, s |-> s, h |-> h]
Printed(msgs) == [k \in 1..Len(msgs) |-> Ev("print", msgs[k], <<>>, 0)]

argc == Len(argv)
Arg(i) == argv[i + 1]

InitMain ==
  /\ pc = "main"
  /\ args = [args_zero EXCEPT !.line_size = 16]
  /\ n = 0
  /\ outfilename = Indeterminate
  /\ wfp = 0
  /\ load = "none"
  /\ result = "none"
  /\ exitcode = "running"
  /\ streams = <<[name |-> <<"stdin">>, mode |-> "r", open |-> TRUE],
                 [name |-> <<"stdout">>, mode |-> "w", open |-> TRUE]>>
  /\ log = <<>>
  /\ infile = 0
  /\ need_close = FALSE
  /\ hook = FALSE
  /\ p_f = 0
  /\ hookRet = [ret |-> 0, why |-> "none"]
  /\ extra = 0
  /\ parsed = "none"

Init ==
  /\ argv \in {<<PROG>> \o t : t \in SeqsUpTo(ArgPool, MaxArgs)}
  /\ InitMain
  /\ fn_in = <<>>
  /\ fn_out = <<>>

\* return from main, or exit(), with the given status
Exit(code, events) ==
  /\ pc' = "exited"
  /\ exitcode' = code
  /\ log' = log \o events

\* ------------------------------------------------------------- main
\* main up to and including the checks of what parse_args returned
MainParseArgs ==
  /\ pc = "main"
  /\ LET r == parse_args(argv)
     IN /\ args' = r.args
        /\ n' = r.n
        /\ IF r.exited THEN Exit("EXIT_SUCCESS", Printed(r.out))
           ELSE IF r.n < 0
             THEN Exit("EXIT_FAILURE", Printed(r.out) \o <<Ev("print", "usage", <<>>, 0)>>)
           ELSE IF r.n = argc
             THEN Exit("EXIT_FAILURE", Printed(r.out) \o <<Ev("print", "no program file given", <<>>, 0)>>)
           ELSE /\ pc' = "outname"
                /\ log' = log \o Printed(r.out)
                /\ UNCHANGED exitcode
  /\ UNCHANGED <<argv, outfilename, wfp, load, result, streams>>
  /\ UNCHANGED loaderVars
  /\ UNCHANGED fnVars

\* a faulty variant: the derivation does not look at -c
NeedsOutfilename_withCheck == args.outfile = NULL

\* main derives an output name: no -o and no -c
NeedsOutfilename == args.outfile = NULL /\ ~args.check_syntax

\* a faulty variant: any number of inputs passes
SingleInput_orMore == n + 1 <= argc

\* exactly one positional input
SingleInput == n + 1 = argc

\* the derivation of the output name when none was given, and args.idx = n.
\* The name goes to main's outfilename; args.outfile stays as parse_args left
\* it.  The second argument of the get_outfilename call, written
\* "args.outfile ? args.outfile, argv[n]", is read as the conditional
\* args.outfile ? args.outfile : argv[n].
MainOutfilename ==
  /\ pc = "outname"
  /\ IF NeedsOutfilename
       THEN IF SingleInput
              THEN LET from == IF args.outfile # NULL THEN args.outfile.s ELSE Arg(n)
                       got == get_outfilename(from, IF args.initname # NULL THEN C_EXT ELSE RITEBIN_EXT)
                   IN /\ outfilename' = HeapPtr("main:348", got.buf)
                      /\ log' = Append(log, Ev("get_outfilename", "main:348", CStr(got.buf), 0))
                      /\ args' = [args EXCEPT !.idx = n]
                      /\ pc' = "load"
                      /\ UNCHANGED exitcode
              ELSE /\ Exit("EXIT_FAILURE", <<Ev("print", "output file should be specified to compile multiple files", <<>>, 0)>>)
                   /\ UNCHANGED <<outfilename, args>>
       ELSE /\ args' = [args EXCEPT !.idx = n]
            /\ pc' = "load"
            /\ UNCHANGED <<outfilename, log, exitcode>>
  /\ UNCHANGED <<argv, n, wfp, load, result, streams>>
  /\ UNCHANGED loaderVars
  /\ UNCHANGED fnVars

\* fopen and fclose on the table of streams
Opened(name, mode) == Append(streams, [name |-> name, mode |-> mode, open |-> TRUE])
Closed(h) == [streams EXCEPT ![h].open = FALSE]

\* ---------------------------------------------------------- load_file
\* load_file up to the call of mrb_load_file_cxt
LoadFileOpen ==
  /\ pc = "load"
  /\ \E ok \in BOOLEAN :
       LET input == Arg(args.idx)
           isStdin == CharAt(input, 0) = "-" /\ CharAt(input, 1) = NUL
           h == IF isStdin THEN STDIN ELSE Len(streams) + 1
           chained == args.idx + 1 < argc
       IN IF ~isStdin /\ ~ok
            THEN /\ log' = log \o <<Ev("fopen", "rb", input, 0),
                                    Ev("print", "cannot open program file", input, 0)>>
                 /\ need_close' = TRUE
                 /\ load' = "nil"
                 /\ pc' = "loaded"
                 /\ UNCHANGED <<args, streams, infile, hook, p_f>>
            ELSE /\ streams' = IF isStdin THEN streams ELSE Opened(input, "rb")
                 /\ log' = (IF isStdin THEN log ELSE Append(log, Ev("fopen", "rb", input, h)))
                             \o <<Ev("parse", "mrb_load_file_cxt", input, h)>>
                 /\ infile' = h
                 /\ p_f' = h
                 /\ args' = [args EXCEPT !.idx = @ + 1]
                 /\ hook' = chained
                 /\ need_close' = (~isStdin /\ ~chained)
                 /\ pc' = "parse"
                 /\ UNCHANGED load
  /\ UNCHANGED <<argv, n, outfilename, wfp, result, exitcode, hookRet, extra, parsed>>
  /\ UNCHANGED fnVars

\* a faulty variant of HookAtEnd: the cursor may step once past argc
HookAtEnd_offByOne == args.idx > argc

\* the test of partial_hook for the end of the argument vector
HookAtEnd == args.idx >= argc

\* partial_hook, called by the parser when p->f is exhausted; argv[argc] is
\* the null pointer, the empty name here
partial_hook ==
  /\ hook
  /\ pc \in {"parse", "parse_end"}
  /\ pc = "parse_end" => extra < MaxExtraHook
  /\ extra' = IF pc = "parse_end" THEN extra + 1 ELSE extra
  /\ \E ok \in BOOLEAN :
       LET closing == IF p_f # 0 THEN <<Ev("fclose", "partial_hook", <<>>, p_f)>> ELSE <<>>
           s1 == IF p_f # 0 THEN Closed(p_f) ELSE streams
           fn == IF args.idx < argc THEN Arg(args.idx) ELSE <<>>
           h == Len(streams) + 1
       IN IF HookAtEnd
            THEN /\ p_f' = 0
                 /\ streams' = s1
                 /\ log' = log \o closing
                 /\ hookRet' = [ret |-> -1, why |-> "end of input"]
                 /\ pc' = "parse_end"
                 /\ UNCHANGED args
            ELSE /\ args' = [args EXCEPT !.idx = @ + 1]
                 /\ IF ok
                      THEN /\ p_f' = h
                           /\ streams' = Append(s1, [name |-> fn, mode |-> "rb", open |-> TRUE])
                           /\ log' = log \o closing \o <<Ev("fopen", "rb", fn, h),
                                                         Ev("parse", "mrb_parser_set_filename", fn, h)>>
                           /\ hookRet' = [ret |-> 0, why |-> "opened"]
                           /\ pc' = "parse"
                      ELSE /\ p_f' = 0
                           /\ streams' = s1
                           /\ log' = log \o closing \o <<Ev("fopen", "rb", fn, 0),
                                                         Ev("print", "cannot open program file", fn, 0)>>
                           /\ hookRet' = [ret |-> -1, why |-> "cannot open"]
                           /\ pc' = "parse_end"
  /\ UNCHANGED <<argv, n, outfilename, wfp, load, result, exitcode, infile, need_close, hook, parsed>>
  /\ UNCHANGED fnVars

\* mrb_load_file_cxt returns: with no hook when the stream is exhausted, with
\* a hook once the hook has returned a negative value; the unit compiles or not
mrb_load_file_cxt ==
  /\ IF hook THEN pc = "parse_end" ELSE pc = "parse"
  /\ \E ok \in BOOLEAN : parsed' = IF ok THEN "proc" ELSE "undef"
  /\ pc' = "load_ret"
  /\ log' = Append(log, Ev("parse", "done", <<>>, p_f))
  /\ UNCHANGED <<argv, args, n, outfilename, wfp, load, result, exitcode, streams,
                 infile, need_close, hook, p_f, hookRet, extra>>
  /\ UNCHANGED fnVars

\* load_file after mrb_load_file_cxt
LoadFileReturn ==
  /\ pc = "load_ret"
  /\ IF need_close
       THEN /\ streams' = Closed(infile)
            /\ log' = Append(log, Ev("fclose", "load_file", <<>>, infile))
       ELSE UNCHANGED <<streams, log>>
  /\ load' = IF parsed = "undef" THEN "nil" ELSE "proc"
  /\ pc' = "loaded"
  /\ UNCHANGED <<argv, args, n, outfilename, wfp, result, exitcode>>
  /\ UNCHANGED loaderVars
  /\ UNCHANGED fnVars

\* main after load_file: the failed load and the syntax check
MainAfterLoad ==
  /\ pc = "loaded"
  /\ IF load = "nil" THEN Exit("EXIT_FAILURE", <<>>)
     ELSE IF args.check_syntax
       THEN Exit("EXIT_SUCCESS", <<Ev("print", "Syntax OK", Arg(n), STDOUT)>>)
     ELSE /\ pc' = "dump_open"
          /\ UNCHANGED <<exitcode, log>>
  /\ UNCHANGED <<argv, args, n, outfilename, wfp, load, result, streams>>
  /\ UNCHANGED loaderVars
  /\ UNCHANGED fnVars

\* ---------------------------------------------------------- dump_file
\* p == q on pointers: the same place of the same object
PtrEq(p, q) == p.obj = q.obj /\ p.off = q.off

\* strrchr(p, ch) as a pointer into the object of p
StrrchrPtr(p, ch) ==
  LET k == Strrchr(p.s, ch)
  IN IF k = -1 THEN NULL
     ELSE [obj |-> p.obj, off |-> p.off + k, s |-> Suffix(p.s, k)]

\* what a dump codec can return
DumpCodes == {"MRB_DUMP_OK", "MRB_DUMP_INVALID_ARGUMENT", "MRB_DUMP_GENERAL_FAILURE"}

\* the codec dump_file calls when args.initname is set
CSourceCodec(a, outfile) ==
  LET file_ext == StrrchrPtr(outfile, ".")
  IN IF file_ext # NULL /\ PtrEq(file_ext, LitHeadExt) THEN "mrb_dump_irep_cheader"
     ELSE IF "MRB_DUMP_STRUCT" \in a.flags THEN "mrb_dump_irep_cstruct"
     ELSE "mrb_dump_irep_cvar"

\* a codec called on stream fp for the named output, with the line width it
\* is given (only mrb_dump_irep_cvar takes one)
CodecEv(codec, name, fp, a) ==
  [op |-> "codec", x |-> codec, s |-> name, h |-> fp,
   line_size |-> IF codec = "mrb_dump_irep_cvar" THEN a.line_size ELSE 0]

\* a faulty variant of RemoveLv: the transform is never applied
RemoveLv_never(a, outfile) == <<>>

\* the first statement of dump_file: mrb_irep_remove_lv when args->remove_lv
RemoveLv(a, outfile) ==
  IF a.remove_lv THEN <<Ev("mrb_irep_remove_lv", "dump_file", outfile.s, 0)>> ELSE <<>>

\* dump_file(mrb, fp, outfile, proc, args), the codec called returning rc:
\* what it does, in order, and what it returns
dump_file(fp, outfile, a, rc) ==
  LET lv == RemoveLv(a, outfile)
      failed == IF rc # "MRB_DUMP_OK"
                  THEN <<Ev("print", "error in mrb dump", outfile.s, 0)>> ELSE <<>>
  IN IF a.initname # NULL
       THEN [events |-> lv \o <<CodecEv(CSourceCodec(a, outfile), outfile.s, fp, a)>>
                          \o (IF rc = "MRB_DUMP_INVALID_ARGUMENT"
                                THEN <<Ev("print", "invalid C language symbol name", a.initname.s, 0)>>
                                ELSE <<>>)
                          \o failed,
             n |-> rc]
     ELSE IF "MRB_DUMP_STATIC" \in a.flags
       THEN [events |-> lv \o <<Ev("print", "-s option requires -B<symbol>", <<>>, 0)>>,
             n |-> "MRB_DUMP_INVALID_ARGUMENT"]
     ELSE [events |-> lv \o <<CodecEv("mrb_dump_irep_binary", outfile.s, fp, a)>> \o failed,
           n |-> rc]

CodecCalled(events) == \E k \in 1..Len(events) : events[k].op = "codec"

\* a dump_file call of main: at, the place of main; to, where main goes on
DumpCall(at, to) ==
  /\ pc = at
  /\ \E name \in Read(outfilename), rc \in DumpCodes, crash \in BOOLEAN :
       LET d == dump_file(wfp, name, args, rc)
       IN /\ outfilename' = name
          /\ IF name = WildPtr \/ (crash /\ ~streams[wfp].open /\ CodecCalled(d.events))
               THEN /\ Exit("CRASH", <<Ev("crash", at, <<>>, wfp)>>)
                    /\ UNCHANGED result
               ELSE /\ result' = d.n
                    /\ log' = log \o d.events
                    /\ pc' = to
                    /\ UNCHANGED exitcode
  /\ UNCHANGED <<argv, args, n, wfp, load, streams>>
  /\ UNCHANGED loaderVars
  /\ UNCHANGED fnVars

\* fclose(wfp); mrb_free(mrb, outfilename); and the check of result
\* at, the place of main; events, what main did just before
CloseCall(at, to) ==
  /\ pc = at
  /\ \E crash \in BOOLEAN :
       LET closing == <<Ev("fclose", "main", <<>>, wfp), Ev("mrb_free", "main", outfilename.s, 0)>>
       IN /\ streams' = Closed(wfp)
          /\ IF crash /\ (outfilename.obj[1] # "heap" \/ ~streams[wfp].open)
               THEN Exit("CRASH", <<Ev("crash", at, <<>>, wfp)>>)
             ELSE IF result # "MRB_DUMP_OK" THEN Exit("EXIT_FAILURE", closing)
             ELSE IF to = "exited" THEN Exit("EXIT_SUCCESS", closing)
             ELSE /\ pc' = to
                  /\ log' = log \o closing
                  /\ UNCHANGED exitcode
  /\ UNCHANGED <<argv, args, n, outfilename, wfp, load, result>>
  /\ UNCHANGED loaderVars
  /\ UNCHANGED fnVars

\* main opens the stream of the bytecode/C file dump
MainOpenOutput ==
  /\ pc = "dump_open"
  /\ \E name \in Read(outfilename), ok \in BOOLEAN :
       IF args.outfile = NULL
         THEN /\ Exit("EXIT_FAILURE", <<Ev("print", "Output file is required", <<>>, 0)>>)
              /\ UNCHANGED <<outfilename, wfp, streams>>
       ELSE IF args.outfile.s = <<"-">>
         THEN /\ wfp' = STDOUT
              /\ pc' = "dump"
              /\ UNCHANGED <<outfilename, streams, log, exitcode>>
       ELSE /\ outfilename' = name
            /\ IF name = WildPtr
                 THEN /\ Exit("CRASH", <<Ev("crash", "dump_open", <<>>, 0)>>)
                      /\ UNCHANGED <<wfp, streams>>
               ELSE IF ok
                 THEN /\ wfp' = Len(streams) + 1
                      /\ streams' = Opened(name.s, "wb")
                      /\ log' = Append(log, Ev("fopen", "wb", name.s, Len(streams) + 1))
                      /\ pc' = "dump"
                      /\ UNCHANGED exitcode
               ELSE /\ wfp' = 0
                    /\ Exit("EXIT_FAILURE", <<Ev("fopen", "wb", name.s, 0),
                                              Ev("print", "cannot open output file", name.s, 0)>>)
                    /\ UNCHANGED streams
  /\ UNCHANGED <<argv, args, n, load, result>>
  /\ UNCHANGED loaderVars
  /\ UNCHANGED fnVars

MainDump == DumpCall("dump", "dump_close")

MainCloseOutput == CloseCall("dump_close", "header")

\* main's C header file dump up to its dump_file call, and main's return
\* when no header was asked for
MainHeader ==
  /\ pc = "header"
  /\ \E ok \in BOOLEAN :
       LET got == get_outfilename(args.outfile.s, C_HEAD_EXT)
           name == HeapPtr("main:392", got.buf)
           derived == Ev("get_outfilename", "main:392", name.s, 0)
       IN IF "MRB_DUMP_HEADER" \notin args.flags
            THEN /\ Exit("EXIT_SUCCESS", <<>>)
                 /\ UNCHANGED <<outfilename, wfp, streams>>
          ELSE /\ outfilename' = name
               /\ IF args.outfile.s = <<"-">>
                    THEN /\ wfp' = STDOUT
                         /\ pc' = "header_dump"
                         /\ log' = Append(log, derived)
                         /\ UNCHANGED <<streams, exitcode>>
                  ELSE IF ~ok
                    THEN /\ wfp' = 0
                         /\ Exit("EXIT_FAILURE", <<derived, Ev("fopen", "wb", name.s, 0),
                                                   Ev("print", "cannot open output file", name.s, 0)>>)
                         /\ UNCHANGED streams
                  ELSE /\ wfp' = Len(streams) + 1
                       /\ streams' = Opened(name.s, "wb")
                       /\ Exit("EXIT_FAILURE", <<derived, Ev("fopen", "wb", name.s, Len(streams) + 1),
                                                 Ev("print", "Output file is required", <<>>, 0)>>)
  /\ UNCHANGED <<argv, args, n, load, result>>
  /\ UNCHANGED loaderVars
  /\ UNCHANGED fnVars

MainHeaderDump == DumpCall("header_dump", "header_close")

MainHeaderClose == CloseCall("header_close", "exited")

Next ==
  \/ MainParseArgs
  \/ MainOutfilename
  \/ LoadFileOpen
  \/ partial_hook
  \/ mrb_load_file_cxt
  \/ LoadFileReturn
  \/ MainAfterLoad
  \/ MainOpenOutput
  \/ MainDump
  \/ MainCloseOutput
  \/ MainHeader
  \/ MainHeaderDump
  \/ MainHeaderClose

Spec == Init /\ [][Next]_vars

\* ------------------------------------------- functions on their own
NameChars == {"a", ".", "h"}
Names == SeqsUpTo(NameChars, MaxLen)
Exts == {<<>>, RITEBIN_EXT, C_EXT, C_HEAD_EXT}

\* get_outfilename called with any name and any extension
InitDeriver ==
  /\ argv = <<PROG>>
  /\ InitMain
  /\ fn_in \in [infile : Names, ext : Exts]
  /\ fn_out = <<>>

CallGetOutfilename ==
  /\ pc = "main"
  /\ pc' = "returned"
  /\ fn_out' = get_outfilename(fn_in.infile, fn_in.ext)
  /\ UNCHANGED <<argv, args, exitcode, streams, log, fn_in>>
  /\ UNCHANGED mainLocals
  /\ UNCHANGED loaderVars

SpecDeriver == InitDeriver /\ [][CallGetOutfilename]_vars

\* dump_file called with any configuration and target file name
DumpTargets ==
  {<<"o">>, <<"o", ".", "h">>, <<"o", ".", "c">>, <<"h">>, <<"o", ".", "h", "h">>, <<"-">>}

InitDump ==
  /\ argv = <<PROG>>
  /\ InitMain
  /\ fn_in \in [outfile : {HeapPtr("main:392", Append(g, NUL)) : g \in DumpTargets},
                initname : {NULL, ArgPtr(<<PROG, A_Bs>>, 1, 2)},
                flags : SUBSET {"MRB_DUMP_STRUCT", "MRB_DUMP_STATIC", "MRB_DUMP_HEADER"},
                remove_lv : BOOLEAN]
  /\ fn_out = <<>>

CallDumpFile ==
  /\ pc = "main"
  /\ pc' = "returned"
  /\ \E rc \in DumpCodes :
       fn_out' = dump_file(STDOUT, fn_in.outfile,
                           [args EXCEPT !.initname = fn_in.initname, !.flags = fn_in.flags,
                                        !.remove_lv = fn_in.remove_lv], rc)
  /\ UNCHANGED <<argv, args, exitcode, streams, log, fn_in>>
  /\ UNCHANGED mainLocals
  /\ UNCHANGED loaderVars

SpecDump == InitDump /\ [][CallDumpFile]_vars

\* ------------------------------------------------- reading the log
\* ------------------------------------- the option scan of main, alone
\* further arguments a command line can hold
A_B == <<"-", "B">>
A_x == <<"-", "x">>
A_bogus == <<"-", "-", "b", "o", "g", "u", "s">>
A_copyright == <<"-", "-">> \o S_copyright
A_line_size == <<"-", "-">> \o S_line_size
A_line_size_1 == A_line_size \o <<"=", "1">>
A_line_size_255 == A_line_size \o <<"=", "2", "5", "5">>
A_line_size_0 == A_line_size \o <<"=", "0">>
A_line_size_256 == A_line_size \o <<"=", "2", "5", "6">>
A_line_size_x == A_line_size \o <<"=", "x">>
A_one == <<"1">>

OptionPool == {A_o, A_oo, A_B, A_Bs, A_c, A_H, A_h, A_x, A_bogus, A_dash, A_a_r,
               A_version, A_copyright, A_remove_lv, A_one,
               A_line_size, A_line_size_1, A_line_size_255, A_line_size_0,
               A_line_size_256, A_line_size_x}

\* main is entered with a command line over OptionPool and runs up to its
\* tests of what parse_args returned
InitParse ==
  /\ argv \in {<<PROG>> \o t : t \in SeqsUpTo(OptionPool, MaxArgs)}
  /\ InitMain
  /\ fn_in = <<>>
  /\ fn_out = <<>>

SpecParse == InitParse /\ [][MainParseArgs]_vars

\* ------------------------------- main on command lines with a header pass
\* the arguments of runs that strip local variables and emit a header: one
\* more argument than Init allows, over fewer options
HeaderPool == {A_remove_lv, A_H, A_oStdout, A_oo, A_Bs, A_c, A_dash, A_a_r}

InitHeader ==
  /\ argv \in {<<PROG>> \o t : t \in SeqsUpTo(HeaderPool, MaxArgs + 1)}
  /\ InitMain
  /\ fn_in = <<>>
  /\ fn_out = <<>>

SpecHeader == InitHeader /\ [][Next]_vars

Events(op) == SelectSeq(log, LAMBDA e : e.op = op)
PrintedMsg(msg) == \E k \in 1..Len(log) : log[k].op = "print" /\ log[k].x = msg
\* fopen calls in the given mode that returned a stream / the null pointer
FopenOk(mode) == \E k \in 1..Len(log) : log[k].op = "fopen" /\ log[k].x = mode /\ log[k].h # 0
FopenFailed(mode) == \E k \in 1..Len(log) : log[k].op = "fopen" /\ log[k].x = mode /\ log[k].h = 0
CodecInvoked == Events("codec") # <<>>

\* the positional inputs of a run whose options were parsed
Positional == [k \in 1..(argc - n) |-> Arg(n + k - 1)]

\* the text of s before its last '.', all of s when it has none
Stem(s) == IF Strrchr(s, ".") = -1 THEN s ELSE SubSeq(s, 1, Strrchr(s, "."))

\* ------------------------------------------------------------ claims
\* the failures the exit-code contract lists
UsageError == PrintedMsg("usage")
NoInputFiles == PrintedMsg("no program file given")
MultipleWithoutOutput ==
  PrintedMsg("output file should be specified to compile multiple files")
ListedFailure ==
  \/ UsageError
  \/ NoInputFiles
  \/ MultipleWithoutOutput
  \/ FopenFailed("rb")
  \/ FopenFailed("wb")
  \/ parsed = "undef"
  \/ PrintedMsg("invalid C language symbol name")
  \/ PrintedMsg("-s option requires -B<symbol>")
  \/ PrintedMsg("error in mrb dump")

\* parse_args returned and left at least one positional input
OptionsParsed ==
  /\ pc # "main"
  /\ ~parse_args(argv).exited
  /\ n >= 1
  /\ n < argc

\* a single positional input file, no -o and no -c
SingleInputRun ==
  /\ OptionsParsed
  /\ pc # "outname"
  /\ n + 1 = argc
  /\ Arg(n) # <<"-">>
  /\ args.outfile = NULL
  /\ ~args.check_syntax

\* C1: a run of main that met none of the listed failures ends with
\* EXIT_SUCCESS, so a non-zero exit happens only after a listed failure; and a
\* single valid input with no -o and no -c ends with EXIT_SUCCESS after one
\* dump to the derived file name.
C1_ExitCodes ==
  pc = "exited" =>
    /\ ~ListedFailure => exitcode = "EXIT_SUCCESS"
    /\ (SingleInputRun /\ ~ListedFailure) =>
         /\ exitcode = "EXIT_SUCCESS"
         /\ Len(Events("codec")) = 1
         /\ Events("codec")[1].s = Stem(Arg(n)) \o (IF args.initname # NULL THEN C_EXT ELSE RITEBIN_EXT)

\* C2: whenever main has opened the stream of the primary dump, it is
\* standard output if the output path is "-" and otherwise a stream opened on
\* exactly the output path; and the name dump_file is given is that path.
C2_PrimaryOnOutputPath ==
  /\ pc = "dump" =>
       IF args.outfile.s = <<"-">> THEN wfp = STDOUT
       ELSE streams[wfp].name = args.outfile.s /\ streams[wfp].mode = "wb"
  /\ pc = "dump_close" => outfilename.s = args.outfile.s

\* C3: with a single input, no -o and no -c, the name main derives is the
\* stem of the input followed by ".c" when -B is set and by ".mrb" when not.
C3_DerivedName ==
  (SingleInputRun /\ pc = "load") =>
    outfilename.s = Stem(Arg(n)) \o (IF args.initname # NULL THEN C_EXT ELSE RITEBIN_EXT)

HasDot(s) == Strrchr(s, ".") # -1

\* C4: get_outfilename returns a terminated copy of the input name, of the
\* same length and characters, whenever the name holds no '.' (whatever the
\* extension) and whenever the extension is empty.
C4_CopyUnchanged ==
  (pc = "returned" /\ (~HasDot(fn_in.infile) \/ fn_in.ext = <<>>)) =>
    /\ ~fn_out.overflow
    /\ Terminated(fn_out.buf)
    /\ CStr(fn_out.buf) = fn_in.infile
    /\ Len(CStr(fn_out.buf)) = Len(fn_in.infile)

\* a name without '.' went through get_outfilename with a non-empty extension
C4_Witness ==
  /\ pc = "returned"
  /\ fn_in.infile = <<"a", "h">>
  /\ fn_in.ext = RITEBIN_EXT
  /\ CStr(fn_out.buf) = <<"a", "h">>

\* two or more positional inputs and no output path
MultipleInputsNoOutput ==
  /\ OptionsParsed
  /\ argc - n >= 2
  /\ args.outfile = NULL

NothingOpened == ~\E k \in 1..Len(log) : log[k].op \in {"fopen", "parse", "codec"}

\* C5 as stated: two or more positional inputs without -o are rejected
\* whatever the other flags are: nothing is loaded, nothing is opened, and
\* main ends with a non-zero status.
C5_Original ==
  MultipleInputsNoOutput =>
    /\ NothingOpened
    /\ pc = "exited" => exitcode = "EXIT_FAILURE"

\* C5 as amended: two or more positional inputs without -o and without -c
\* are rejected: nothing is loaded, nothing is opened, and main ends with a
\* non-zero status.
C5_MultipleRejected ==
  (MultipleInputsNoOutput /\ ~args.check_syntax) =>
    /\ NothingOpened
    /\ pc \in {"outname", "exited"}
    /\ pc = "exited" => exitcode = "EXIT_FAILURE"

\* main has rejected two inputs that came with other flags but no -o, no -c
C5_Witness ==
  /\ MultipleInputsNoOutput
  /\ ~args.check_syntax
  /\ n > 1
  /\ pc = "exited"
  /\ exitcode = "EXIT_FAILURE"
  /\ MultipleWithoutOutput

\* the streams the parser was given, in order, and their names
PresentedStreams == SelectSeq(Events("parse"), LAMBDA e : e.x # "done")
PresentedNames == [k \in 1..Len(PresentedStreams) |-> PresentedStreams[k].s]
\* no stream was given to the parser twice
PresentedOnce ==
  \A j, k \in 1..Len(PresentedStreams) :
    j # k => PresentedStreams[j].h # PresentedStreams[k].h

\* C6: in a chained load the hook is installed exactly when a further
\* positional input follows the first, it returns the end-of-input value only
\* once every positional input has been presented, and when
\* mrb_load_file_cxt returns the parser has been given exactly the positional
\* inputs, in argument order, each one stream opened once.
C6_ChainedInOrder ==
  /\ pc \in {"parse", "parse_end", "load_ret"} => (hook <=> argc - n >= 2)
  /\ (hook /\ hookRet.why # "none" /\ hookRet.ret = -1) => PresentedNames = Positional
  /\ (hook /\ pc = "load_ret") => (PresentedNames = Positional /\ PresentedOnce)

\* a later positional input that fopen could not open
ChainedOpenFailed ==
  \E j, k \in 1..Len(log) :
    /\ j < k
    /\ log[j].op = "parse"
    /\ log[k].op = "fopen" /\ log[k].x = "rb" /\ log[k].h = 0

\* C7: when a second or later input cannot be opened, what the hook returns
\* differs from what it returns at the end of the input (-1) and from
\* success (0), the load fails, nothing is dumped, main ends with a non-zero
\* status, and the name of the file was reported.
C7_ChainedOpenFailure ==
  ChainedOpenFailed =>
    /\ hookRet.why = "cannot open" => hookRet.ret \notin {0, -1}
    /\ pc \in {"loaded", "dump_open", "dump", "dump_close", "header"} => load = "nil"
    /\ ~CodecInvoked
    /\ pc = "exited" => exitcode = "EXIT_FAILURE"
    /\ PrintedMsg("cannot open program file")

\* C8: with -c set, no output name is derived, no output file is opened and
\* no codec is called, whatever the other flags and however many inputs; and
\* when the inputs load, main prints "<prog>:<file>:Syntax OK" for the first
\* input and ends with EXIT_SUCCESS.
C8_CheckOnly ==
  args.check_syntax =>
    /\ Events("get_outfilename") = <<>>
    /\ ~CodecInvoked
    /\ ~FopenOk("wb") /\ ~FopenFailed("wb")
    /\ wfp = 0 /\ outfilename = Indeterminate
    /\ (pc = "exited" /\ load = "proc") =>
         /\ exitcode = "EXIT_SUCCESS"
         /\ log[Len(log)] = Ev("print", "Syntax OK", Arg(n), STDOUT)

\* -c with a single input and no -o: the input loaded, Syntax OK printed
C8_Witness ==
  /\ args.check_syntax
  /\ args.outfile = NULL
  /\ n + 1 = argc
  /\ pc = "exited"
  /\ exitcode = "EXIT_SUCCESS"
  /\ PrintedMsg("Syntax OK")

\* -s without -B on a run that is to dump
StaticWithoutSymbol ==
  /\ OptionsParsed
  /\ "MRB_DUMP_STATIC" \in args.flags
  /\ args.initname = NULL
  /\ ~args.check_syntax

\* C9: -s without -B is rejected with a non-zero status, and before the
\* rejection no output file was opened for writing and no codec was called.
C9_StaticRejectedBeforeOpen ==
  StaticWithoutSymbol =>
    /\ ~FopenOk("wb")
    /\ ~CodecInvoked
    /\ pc = "exited" => exitcode # "EXIT_SUCCESS"

\* whether the string ends in exactly the extension ".h"
HasHeaderExt(s) == HasDot(s) /\ Suffix(s, Strrchr(s, ".")) = C_HEAD_EXT

\* C10: a dump_file call invokes at most one codec; with an embed symbol it
\* is the C-header codec when the extension of the target is exactly ".h",
\* else the C-struct codec when -S is set, else the C-variable codec; with
\* neither an embed symbol nor -s it is the binary codec.
C10_OneCodec ==
  pc = "returned" =>
    LET called == SelectSeq(fn_out.events, LAMBDA e : e.op = "codec")
    IN /\ Len(called) <= 1
       /\ fn_in.initname # NULL =>
            /\ Len(called) = 1
            /\ called[1].x = IF HasHeaderExt(fn_in.outfile.s) THEN "mrb_dump_irep_cheader"
                             ELSE IF "MRB_DUMP_STRUCT" \in fn_in.flags THEN "mrb_dump_irep_cstruct"
                             ELSE "mrb_dump_irep_cvar"
       /\ (fn_in.initname = NULL /\ "MRB_DUMP_STATIC" \notin fn_in.flags) =>
            /\ Len(called) = 1
            /\ called[1].x = "mrb_dump_irep_binary"

\* the header pass of main was entered: the header name was derived
HeaderDerived ==
  \E k \in 1..Len(log) : log[k].op = "get_outfilename" /\ log[k].x = "main:392"

\* the fopen calls of the header pass, those after the header name was derived
HeaderFopens ==
  {k \in 1..Len(log) :
     /\ log[k].op = "fopen" /\ log[k].x = "wb"
     /\ \E j \in 1..(k - 1) : log[j].op = "get_outfilename" /\ log[j].x = "main:392"}

\* C11: with -H and a primary dump that returned MRB_DUMP_OK, main derives the
\* header name from the output path with ".h" and opens a stream on it; when
\* the stream opens, dump_file is called a second time on it, and the run
\* ends with EXIT_SUCCESS unless the header dump fails; it ends with
\* EXIT_FAILURE only when the header file cannot be opened or the header
\* dump fails.
C11_HeaderPass ==
  (pc = "exited" /\ exitcode # "CRASH" /\ HeaderDerived) =>
    LET opened == \E k \in HeaderFopens : log[k].h # 0
        failedOpen == \E k \in HeaderFopens : log[k].h = 0
    IN /\ \A k \in HeaderFopens :
            log[k].s = CStr(get_outfilename(args.outfile.s, C_HEAD_EXT).buf)
       /\ opened => Len(Events("codec")) = 2
       /\ (opened /\ result = "MRB_DUMP_OK") => exitcode = "EXIT_SUCCESS"
       /\ exitcode = "EXIT_FAILURE" => (failedOpen \/ result # "MRB_DUMP_OK")

\* the argument is --line-size=<text>; LineSizeText is that text
IsLineSizeOption(s) ==
  /\ Len(s) > Len(A_line_size)
  /\ SubSeq(s, 1, Len(A_line_size) + 1) = A_line_size \o <<"=">>
LineSizeText(s) == Suffix(s, Len(A_line_size) + 1)
\* the text is a decimal integer in 1..255
ValidLineSize(t) ==
  /\ t # <<>>
  /\ \A k \in 1..Len(t) : IsDigit(t[k])
  /\ ReadDigits(t, 0) \in 1..255

\* C12: a line-size option is accepted exactly when its value is an integer
\* in 1..255: --line-size=1 and --line-size=255 are accepted and stored as
\* the line width; --line-size=0, --line-size=256 and a value that is not a
\* number make parse_args return the negative sentinel.
C12_LineSizeRange ==
  (pc # "main" /\ argc = 2 /\ IsLineSizeOption(Arg(1))) =>
    IF ValidLineSize(LineSizeText(Arg(1)))
      THEN n = 2 /\ args.line_size = ReadDigits(LineSizeText(Arg(1)), 0)
      ELSE n = -1

\* no argument of the command line is a line-size option
NoLineSizeOption ==
  \A i \in 1..(argc - 1) :
    Len(Arg(i)) < Len(A_line_size) \/ SubSeq(Arg(i), 1, Len(A_line_size)) # A_line_size

\* C13: every call of the C-variable codec is given a line width in 1..255,
\* and the configured width, the one it is given, is 16 when the command line
\* has no line-size option.
C13_LineWidth ==
  \A k \in 1..Len(log) :
    (log[k].op = "codec" /\ log[k].x = "mrb_dump_irep_cvar") =>
      /\ log[k].line_size \in 1..255
      /\ NoLineSizeOption => (args.line_size = 16 /\ log[k].line_size = 16)

\* --version or --copyright
IsEarlyExit(s) == s \in {A_version, A_copyright}

\* an option the scan accepts that is complete in one argument: a flag
\* without a value, or -o/-B with the value in the same argument
SelfContained(s) ==
  /\ Len(s) >= 2
  /\ s[1] = "-"
  /\ \/ s[2] \in {"S", "H", "8", "c", "v", "g", "s", "E", "e"}
     \/ s[2] \in {"o", "B"} /\ Len(s) > 2
     \/ Suffix(s, 2) \in {S_verbose, S_remove_lv, S_no_ext_ops, S_no_optimize}

\* every argument before argv[i] is such an option, -o at most once
ScanReaches(i) ==
  /\ \A j \in 1..(i - 1) : SelfContained(Arg(j))
  /\ Cardinality({j \in 1..(i - 1) : Arg(j)[2] = "o"}) <= 1

\* what the run shows after an exit from inside parse_args at argv[i]
EarlyExitAt(i) ==
  /\ pc = "exited"
  /\ exitcode = "EXIT_SUCCESS"
  /\ log # <<>>
  /\ log[Len(log)] = Ev("print", IF Arg(i) = A_version THEN "version" ELSE "copyright", <<>>, 0)
  /\ ~UsageError
  /\ ~NoInputFiles

\* an argument that names an option of the program, well-formed or not
KnownOption(s) ==
  /\ Len(s) >= 2
  /\ s[1] = "-"
  /\ \/ s[2] \in {"o", "S", "B", "H", "8", "c", "v", "g", "s", "E", "e", "h"}
     \/ s[2] = "-" /\ Suffix(s, 2) \in {S_version, S_verbose, S_copyright, S_remove_lv,
                                          S_no_ext_ops, S_no_optimize, S_line_size}

\* C14 as stated: --version or --copyright after any options of the program
\* at all (malformed, duplicate or -h included) ends the run at once with
\* EXIT_SUCCESS.
C14_Original ==
  \A i \in 1..(argc - 1) :
    ( /\ pc # "main"
      /\ IsEarlyExit(Arg(i))
      /\ \A j \in 1..(i - 1) : KnownOption(Arg(j)) ) => EarlyExitAt(i)

\* C14: when every argument before --version or --copyright is an accepted
\* option complete in itself (-o at most once), the text is printed and the
\* run ends with EXIT_SUCCESS inside parse_args, whatever follows it and
\* whether or not an input file is given.
C14_EarlyExit ==
  \A i \in 1..(argc - 1) :
    (pc # "main" /\ IsEarlyExit(Arg(i)) /\ ScanReaches(i)) => EarlyExitAt(i)

\* -c --version -h: accepted flag before, a failing flag after, no input
C14_Witness ==
  /\ argc = 4
  /\ Arg(1) = A_c /\ Arg(2) = A_version /\ Arg(3) = A_h
  /\ ScanReaches(2)
  /\ EarlyExitAt(2)

\* argv[i] is one of the usage errors: a second -o, -B or -o with nothing
\* glued and no argument after it, a line size that is a number outside 1..255
MalformedAt(i) ==
  \/ /\ Len(Arg(i)) >= 2 /\ SubSeq(Arg(i), 1, 2) = A_o
     /\ \E j \in 1..(i - 1) : Arg(j)[2] = "o"
  \/ Arg(i) = A_B /\ i = argc - 1
  \/ Arg(i) = A_o /\ i = argc - 1
  \/ /\ IsLineSizeOption(Arg(i))
     /\ \A k \in 1..Len(LineSizeText(Arg(i))) : IsDigit(LineSizeText(Arg(i))[k])
     /\ ReadDigits(LineSizeText(Arg(i)), 0) \notin 1..255

\* C15: a usage error that the option scan reaches makes parse_args return
\* the negative sentinel, and main prints the usage text and ends with
\* EXIT_FAILURE before any file is opened.
C15_UsageErrors ==
  \A i \in 1..(argc - 1) :
    (pc # "main" /\ ScanReaches(i) /\ MalformedAt(i)) =>
      /\ n = -1
      /\ pc = "exited"
      /\ exitcode = "EXIT_FAILURE"
      /\ UsageError
      /\ Events("fopen") = <<>>
      /\ Len(streams) = 2

\* the streams fopen returned to main, load_file and partial_hook
DriverOpened == {h \in 1..Len(streams) : h \notin {STDIN, STDOUT}}

\* C16: when main has returned, every stream the driver opened (first input,
\* chained inputs, primary output, header output) is closed.
C16_AllClosed ==
  (pc = "exited" /\ exitcode # "CRASH") => \A h \in DriverOpened : ~streams[h].open

\* an argument that starts with '-' and whose next character is no case
\* label of the switch; and one that starts with "--" and is no long option
UnknownShortArg(s) ==
  /\ Len(s) >= 1
  /\ s[1] = "-"
  /\ CharAt(s, 1) \notin {"o", "S", "B", "H", "8", "c", "v", "g", "s", "E", "e", "h", "-"}
UnknownLongArg(s) ==
  /\ Len(s) >= 2
  /\ s[1] = "-" /\ s[2] = "-"
  /\ Suffix(s, 2) \notin {S_version, S_verbose, S_copyright, S_remove_lv,
                            S_no_ext_ops, S_no_optimize, S_line_size}

\* C17 as stated: an unrecognized argument that starts with '-', short or
\* long, makes parse_args return its index.
C17_Original ==
  \A i \in 1..(argc - 1) :
    ( /\ pc # "main"
      /\ ScanReaches(i)
      /\ UnknownShortArg(Arg(i)) \/ UnknownLongArg(Arg(i)) ) => n = i

\* C17: an unrecognized short argument (-x, or "-" alone) that the scan
\* reaches makes parse_args return its index, and main goes on with it as
\* the first input; an unrecognized long argument (--bogus) makes parse_args
\* return the negative sentinel, and main prints the usage text.
C17_UnknownOption ==
  \A i \in 1..(argc - 1) :
    (pc # "main" /\ ScanReaches(i)) =>
      /\ UnknownShortArg(Arg(i)) => (n = i /\ pc = "outname" /\ ~UsageError)
      /\ UnknownLongArg(Arg(i)) =>
           (n = -1 /\ pc = "exited" /\ exitcode = "EXIT_FAILURE" /\ UsageError)

\* -c -x: the scan has stopped at -x and returned 2
C17_Witness ==
  /\ argc >= 3
  /\ Arg(1) = A_c /\ Arg(2) = A_x
  /\ ScanReaches(2)
  /\ n = 2
  /\ pc = "outname"

\* main has assigned args.idx = n (line 356): load_file has been entered
CursorSet ==
  /\ pc \notin {"main", "outname"}
  /\ pc = "exited" => (Events("fopen") # <<>> \/ Events("parse") # <<>>)

\* C18: once main has set the cursor, n <= args.idx <= argc in every state,
\* after any number of partial_hook calls, those after the end of the input
\* or after a failed open included; and no step decreases the cursor.
C18_CursorBounds ==
  /\ [](CursorSet => (n <= args.idx /\ args.idx <= argc))
  /\ [][args'.idx >= args.idx]_vars

\* partial_hook was called again after it had reported the end of the
\* input, with the cursor at argc
C18_Witness ==
  /\ hook
  /\ extra >= 1
  /\ hookRet.why = "end of input"
  /\ n < args.idx
  /\ args.idx = argc

StripEvents == Events("mrb_irep_remove_lv")

\* C19 as stated: over the primary dump and the header dump of one run the
\* stripping transform is applied at most once.
C19_Original == Len(StripEvents) <= 1

\* C19: with --remove-lv every dump_file call applies the stripping transform
\* just before it invokes its codec, so the transform precedes the first
\* codec; a run that makes the second dump_file call, for the header, has
\* applied it twice; without --remove-lv it is never applied.
C19_StripPerDump ==
  /\ ~args.remove_lv => StripEvents = <<>>
  /\ args.remove_lv =>
       /\ \A k \in 1..Len(log) :
            log[k].op = "codec" => (k > 1 /\ log[k - 1].op = "mrb_irep_remove_lv")
       /\ Len(StripEvents) <= 2
       /\ pc = "dump_close" => Len(StripEvents) = 1
       /\ pc = "header_close" => Len(StripEvents) = 2

\* after the header dump of a run with --remove-lv: two codecs were invoked
\* and the transform was applied before each
C19_Witness ==
  /\ args.remove_lv
  /\ pc = "header_close"
  /\ Len(Events("codec")) = 2
  /\ Len(StripEvents) = 2

\* C20: no stream is closed twice, and none is written to (by a codec or by
\* a message on it) after it was closed.
C20_NoUseAfterClose ==
  \A j, k \in 1..Len(log) :
    (j < k /\ log[j].op = "fclose") =>
      ~(log[k].op \in {"fclose", "codec", "print"} /\ log[k].h # 0 /\ log[k].h = log[j].h)

====
